---------------------------- MODULE Spec2Model ----------------------------
(***************************************************************************)
(* The /analyze handler of src/app.py (Flask): validation of the upload,   *)
(* sanitisation of its filename, the write to the upload folder, dispatch  *)
(* on (extension, analysis type) to one of the detector's three            *)
(* operations, and the JSON response.                                       *)
(*                                                                         *)
(* A filename is a sequence of tokens.  A token stands for one character   *)
(* of a class that werkzeug's secure_filename and str.rsplit tell apart    *)
(* ("." "_" "-" " " "/" "!" and a non-ASCII character), or for a run of   *)
(* ASCII letters (a stem "a", an extension "png", "PNG", ...).             *)
(***************************************************************************)
EXTENDS Integers, Sequences, FiniteSets, TLC

VARIABLES
    pc,        \* where each thread is in analyze()
    req,       \* the request each thread serves
    filename,  \* analyze()'s local: the sanitised filename
    uploads,   \* the upload folder: filename -> content of the file
    call,      \* the detector calls each thread has made
    ret,       \* what the detector returned or raised to each thread
    resp       \* the response each thread sent

vars == <<pc, req, filename, uploads, call, ret, resp>>

----------------------------------------------------------------------------
(* Bounds of the model *)

MaxNameLen == 3
MaxPages == 2
ProbHalf == 2
NumThreads == 2

----------------------------------------------------------------------------
(* Values *)

None == "<None>"

DOT == "."

\* A character with no ASCII decomposition under NFKD (U+65E5, say).
NONASCII == "<U+65E5>"

\* Runs of ASCII letters and digits.
Words == {"a", "png", "PNG", "jpg", "jpeg", "pdf", "exe"}

\* "!" stands for ASCII punctuation outside [A-Za-z0-9_.-].
Tokens == Words \cup {DOT, "_", "-", " ", "/", "!", NONASCII}

lower(tok) == IF tok = "PNG" THEN "png" ELSE tok

ALLOWED_EXTENSIONS == {"png", "jpg", "jpeg", "pdf"}

UPLOAD_FOLDER == <<"static", "uploads">>

PROCESSED_FOLDER == <<"static", "processed">>

----------------------------------------------------------------------------
(* Sequence helpers *)

RECURSIVE KeepIdx(_, _, _)
\* The subsequence of s at the indices i >= from with keep[i].
KeepIdx(s, keep, from) ==
    IF from > Len(s) THEN <<>>
    ELSE IF keep[from] THEN <<s[from]>> \o KeepIdx(s, keep, from + 1)
    ELSE KeepIdx(s, keep, from + 1)

\* Greatest index of a DOT in s, 0 when there is none.
LastDot(s) ==
    LET D == {i \in DOMAIN s : s[i] = DOT}
    IN  IF D = {} THEN 0 ELSE CHOOSE i \in D : \A j \in D : j <= i

\* s.rsplit('.', 1): one part when s holds no '.', else the two parts
\* around the last one.
rsplit_dot(s) ==
    IF LastDot(s) = 0 THEN <<s>>
    ELSE <<SubSeq(s, 1, LastDot(s) - 1), SubSeq(s, LastDot(s) + 1, Len(s))>>

\* str.lower() of a token sequence.
lower_seq(s) == [i \in DOMAIN s |-> lower(s[i])]

\* s.strip(chars)
strip(s, chars) ==
    LET K == {i \in DOMAIN s : s[i] \notin chars}
    IN  IF K = {} THEN <<>>
        ELSE SubSeq(s, CHOOSE i \in K : \A j \in K : i <= j,
                       CHOOSE i \in K : \A j \in K : j <= i)

\* "_".join(s.split()): leading and trailing whitespace dropped, every other
\* run of whitespace replaced by one "_".
split_join(s) ==
    LET t == strip(s, {" "})
        keep == [i \in DOMAIN t |-> t[i] # " " \/ t[i - 1] # " "]
        u == KeepIdx(t, keep, 1)
    IN  [i \in DOMAIN u |-> IF u[i] = " " THEN "_" ELSE u[i]]

----------------------------------------------------------------------------
(* Filename handling *)

\* werkzeug.utils.secure_filename (POSIX): NFKD + ASCII encoding drops the
\* non-ASCII characters, path separators become spaces, whitespace runs
\* become "_", characters outside [A-Za-z0-9_.-] are removed, and leading
\* and trailing "." and "_" are stripped.
secure_filename(name) ==
    LET ascii == SelectSeq(name, LAMBDA c : c # NONASCII)
        nosep == [i \in DOMAIN ascii |-> IF ascii[i] = "/" THEN " " ELSE ascii[i]]
        joined == split_join(nosep)
        kept == SelectSeq(joined, LAMBDA c : c \in Words \cup {DOT, "_", "-"})
    IN  strip(kept, {DOT, "_"})

allowed_file_case_sensitive(name) ==
    /\ LastDot(name) # 0
    /\ rsplit_dot(name)[2] \in {<<e>> : e \in ALLOWED_EXTENSIONS}

\* '.' in filename and filename.rsplit('.', 1)[1].lower() in ALLOWED_EXTENSIONS
allowed_file(name) ==
    /\ LastDot(name) # 0
    /\ lower_seq(rsplit_dot(name)[2]) \in {<<e>> : e \in ALLOWED_EXTENSIONS}

----------------------------------------------------------------------------
(* Requests *)

Names == UNION {[1..n -> Tokens] : n \in 0..MaxNameLen}

\* request.form.get('analysis_type'): None when the field is missing; "pdf"
\* stands for any value other than 'image' and 'document'.
AnalysisTypes == {None, "", "image", "document", "pdf"}

NoRequest == [has_file |-> FALSE, filename |-> <<>>, analysis_type |-> None]

\* Every POST the model sends to /analyze.
Requests ==
    {[has_file |-> FALSE, filename |-> <<>>, analysis_type |-> a] :
        a \in AnalysisTypes}
    \cup {[has_file |-> TRUE, filename |-> n, analysis_type |-> a] :
            n \in Names, a \in AnalysisTypes}

\* The requests of the concurrent runs: uploads that pass validation, two of
\* them with the same sanitised filename.
ConcRequests ==
    {[has_file |-> TRUE, filename |-> n, analysis_type |-> a] :
        n \in {<<"a", DOT, "png">>, <<NONASCII, "a", DOT, "png">>,
               <<"a", DOT, "pdf">>, <<NONASCII, DOT, "png">>},
        a \in {"image", "document", "pdf"}}

----------------------------------------------------------------------------
(* Responses *)

NoResponse == [kind |-> "none", status |-> 0, body |-> [error |-> None]]

\* jsonify({'error': msg}), status
json_error(msg, status) ==
    [kind |-> "json", status |-> status, body |-> [error |-> msg]]

\* jsonify(body), 200 by default
json_ok(body) == [kind |-> "json", status |-> 200, body |-> body]

\* An exception that leaves analyze(): Flask answers with its own error page
\* (the debugger's traceback page under app.run(debug=True)).
unhandled(exc) ==
    [kind |-> "unhandled", status |-> 500, body |-> [exception |-> exc]]

MSG_NO_FILE_PART == "No file part in the request."
MSG_NO_FILE_SELECTED == "No file selected."
MSG_NO_ANALYSIS_TYPE == "No analysis type selected."
MSG_INVALID_FILE_TYPE == "Invalid file type."
MSG_PDF_NOT_IMAGE == "DeepFake analysis is for images (JPG, PNG), not PDFs."
MSG_INVALID_ANALYSIS_TYPE == "Invalid analysis type specified."
MSG_INTERNAL == "An internal error occurred during processing. Please try again."

\* os.path.basename of a path given by its components
basename(path) == IF path = <<>> THEN "" ELSE path[Len(path)]

\* url_for('static', filename=f"{folder}/{name}")
url_for_static(folder, name) == <<"static", folder, name>>

\* Python truth of a path value: None and '' are false.
truthy(path) == path \notin {<<None>>, <<>>}

----------------------------------------------------------------------------
(* The detector (model.HybridDeepFakeDetector): what a call can return or  *)
(* raise, from its call contract.                                          *)

PREDICT == "predict_image_deepfake"
DOCUMENT == "analyze_document_forgery"
PDF == "analyze_pdf_forgery"

FailureKinds == {"InvalidImage", "ModelInferenceError", "IOError"}

NoResult == [raised |-> "<no call>"]

Raises(kinds) == {[raised |-> k] : k \in kinds}

ArtifactPath(name) == PROCESSED_FOLDER \o <<name>>

\* (probability, highlighted_path): probability k stands for
\* k / (2 * ProbHalf), so that k = ProbHalf is 0.5.
ImageReturns ==
    {[raised |-> None, probability |-> k, highlighted_path |-> h] :
        k \in 0..(2 * ProbHalf), h \in {<<None>>, ArtifactPath("highlight.png")}}

\* Scores as fractions num / den.
DocScores == {[num |-> 2469, den |-> 200], [num |-> 175, den |-> 2]}

\* (forgery_score, verdict, analyzed_path)
DocumentReturns ==
    {[raised |-> None, forgery_score |-> s, verdict |-> v, analyzed_path |-> a] :
        s \in DocScores, v \in {"Suspicious Forgery", "Likely Authentic"},
        a \in {<<None>>, ArtifactPath("ela.png")}}

PageBase(i) ==
    [page_number |-> i, forgery_score |-> [num |-> 175, den |-> 2],
     verdict |-> "Likely Authentic"]

\* The entries a page can get: both artifacts, an analyzed artifact of None,
\* an empty original path, and no path keys at all.
PageEntries(i) ==
    LET orig == ArtifactPath("page_" \o ToString(i) \o ".png")
        ela == ArtifactPath("page_" \o ToString(i) \o "_ela.png")
        both == [original_page_image_path |-> orig, analyzed_image_path |-> ela]
        noela == [original_page_image_path |-> orig, analyzed_image_path |-> <<None>>]
        noorig == [original_page_image_path |-> <<>>, analyzed_image_path |-> ela]
    IN  {PageBase(i) @@ both, PageBase(i) @@ noela, PageBase(i) @@ noorig,
         PageBase(i)}

\* One entry per page, in page order; no entry for a zero-page document.
PdfReturns ==
    {[raised |-> None, pages |-> ps] :
        ps \in UNION {{f \in [1..n -> UNION {PageEntries(i) : i \in 1..n}] :
                          \A i \in 1..n : f[i] \in PageEntries(i)} :
                      n \in 0..MaxPages}}

Outcomes ==
    [predict_image_deepfake |-> ImageReturns \cup Raises(FailureKinds),
     analyze_document_forgery |-> DocumentReturns \cup Raises(FailureKinds),
     analyze_pdf_forgery |-> PdfReturns \cup Raises(FailureKinds)]

\* The outcomes drawn in the concurrent runs.
ConcOutcomes ==
    [predict_image_deepfake |->
        {o \in ImageReturns : o.probability = 2 * ProbHalf
                              /\ o.highlighted_path = <<None>>}
        \cup Raises({"ModelInferenceError"}),
     analyze_document_forgery |->
        {o \in DocumentReturns : o.forgery_score.den = 2
                                 /\ o.verdict = "Suspicious Forgery"
                                 /\ o.analyzed_path = <<None>>}
        \cup Raises({"InvalidImage"}),
     analyze_pdf_forgery |->
        {o \in PdfReturns : o.pages = <<>>} \cup Raises({"IOError"})]

----------------------------------------------------------------------------
(* analyze(): the pure parts *)

\* The checks before the upload is stored: the message of the first one
\* that fails, None when all pass.  (`file` is true once its filename is
\* not empty, so `file and allowed_file(...)` is the allow-list test.)
validation_error(r) ==
    IF ~r.has_file THEN MSG_NO_FILE_PART
    ELSE IF r.filename = <<>> THEN MSG_NO_FILE_SELECTED
    ELSE IF r.analysis_type \in {None, ""} THEN MSG_NO_ANALYSIS_TYPE
    ELSE IF ~allowed_file(r.filename) THEN MSG_INVALID_FILE_TYPE
    ELSE None

\* What the handler does once the upload is stored: file_extension is read
\* from the sanitised filename, outside the try block.
dispatch(fname, atype) ==
    IF Len(rsplit_dot(fname)) < 2
    THEN [do |-> "raise", what |-> "IndexError"]
    ELSE LET file_extension == lower_seq(rsplit_dot(fname)[2])
         IN  IF file_extension = <<"pdf">>
             THEN IF atype = "image"
                  THEN [do |-> "reply", what |-> MSG_PDF_NOT_IMAGE]
                  ELSE [do |-> "invoke", what |-> PDF]
             ELSE IF atype = "image" THEN [do |-> "invoke", what |-> PREDICT]
             ELSE IF atype = "document" THEN [do |-> "invoke", what |-> DOCUMENT]
             ELSE [do |-> "reply", what |-> MSG_INVALID_ANALYSIS_TYPE]

\* f"{x:.2f}" of x = num / den, as a number of hundredths.
format_2f(num, den) ==
    LET n == num * 100
        q == n \div den
        r == n % den
    IN  IF 2 * r < den THEN q
        ELSE IF 2 * r > den THEN q + 1
        ELSE IF q % 2 = 0 THEN q ELSE q + 1

EXPL_FAKE == "The model detected subtle artifacts consistent with AI-generated images."
EXPL_AUTHENTIC == "The model did not find significant evidence of AI manipulation."
EXPL_FORGERY == "ELA detected inconsistencies in JPEG compression levels, suggesting a potential digital modification."
EXPL_CONSISTENT == "The document's compression levels appear consistent, indicating it is likely unmodified."

verdict_at_half(k) ==
    IF k >= ProbHalf THEN "DeepFake Detected" ELSE "Likely Authentic"

\* "DeepFake Detected" if probability > 0.5 else "Likely Authentic"
verdict_of(k) ==
    IF k > ProbHalf THEN "DeepFake Detected" ELSE "Likely Authentic"

explanation_of(k) == IF k > ProbHalf THEN EXPL_FAKE ELSE EXPL_AUTHENTIC

url_or_none(path) ==
    IF truthy(path) THEN url_for_static("processed", basename(path))
    ELSE <<None>>

image_response(o, fname) ==
    json_ok([verdict |-> verdict_of(o.probability),
             real_score |-> format_2f((2 * ProbHalf - o.probability) * 100,
                                      2 * ProbHalf),
             fake_score |-> format_2f(o.probability * 100, 2 * ProbHalf),
             explanation |-> explanation_of(o.probability),
             analysis_type |-> "image",
             original_image_url |-> <<"static", "uploads">> \o fname,
             analyzed_image_url |-> url_or_none(o.highlighted_path)])

document_response(o, fname) ==
    json_ok([verdict |-> o.verdict,
             forgery_score |-> format_2f(o.forgery_score.num, o.forgery_score.den),
             explanation |-> IF o.verdict = "Suspicious Forgery"
                             THEN EXPL_FORGERY ELSE EXPL_CONSISTENT,
             analysis_type |-> "document",
             original_image_url |-> <<"static", "uploads">> \o fname,
             analyzed_image_url |-> url_or_none(o.analyzed_path)])

\* result.get(key): a missing key reads as None.
get(result, key) == IF key \in DOMAIN result THEN result[key] ELSE <<None>>

add_urls_always(result) ==
    [original_image_url |->
        url_for_static("processed", basename(get(result, "original_page_image_path"))),
     analyzed_image_url |->
        url_for_static("processed", basename(get(result, "analyzed_image_path")))]
    @@ result

\* The body of the loop over pdf_results: the two URL keys are set when the
\* path is there.
add_urls(result) ==
    LET orig == get(result, "original_page_image_path")
        ela == get(result, "analyzed_image_path")
        with_orig ==
            IF truthy(orig)
            THEN ("original_image_url" :> url_for_static("processed", basename(orig)))
                 @@ result
            ELSE result
    IN  IF truthy(ela)
        THEN ("analyzed_image_url" :> url_for_static("processed", basename(ela)))
             @@ with_orig
        ELSE with_orig

pdf_response(o, fname) ==
    json_ok([analysis_type |-> "pdf",
             results |-> [i \in DOMAIN o.pages |-> add_urls(o.pages[i])],
             original_filename |-> fname])

engine_failure_leaks(kind) == json_error(kind, 500)

\* except Exception as e: the same body whatever e is.
engine_failure_response(kind) == json_error(MSG_INTERNAL, 500)

\* The response to what the detector returned or raised.
response_to(op, o, fname) ==
    IF o.raised # None THEN engine_failure_response(o.raised)
    ELSE IF op = PDF THEN pdf_response(o, fname)
    ELSE IF op = PREDICT THEN image_response(o, fname)
    ELSE document_response(o, fname)

invoke_twice(calls, c) == Append(Append(calls, c), c)

\* One call of a detector operation.
invoke(calls, c) == Append(calls, c)

\* file.save(upload_path): the file at the path now holds this content.
save(folder, fname, content) == (fname :> content) @@ folder

----------------------------------------------------------------------------
(* analyze(): the steps of one request, run by the thread that serves it.  *)
(* The upload folder is the state the threads share; a thread's request,   *)
(* sanitised filename, detector calls and response are its own.            *)

Threads == DOMAIN pc

\* The content of the upload of the request thread t serves.
content(t) == t

InitFor(T) ==
    /\ pc = [t \in T |-> "waiting"]
    /\ req = [t \in T |-> NoRequest]
    /\ filename = [t \in T |-> <<>>]
    /\ uploads = <<>>
    /\ call = [t \in T |-> <<>>]
    /\ ret = [t \in T |-> NoResult]
    /\ resp = [t \in T |-> NoResponse]

\* A request arrives and is validated; a valid one gets its sanitised
\* filename.
analyze_validate(t, R) ==
    /\ pc[t] = "waiting"
    /\ \E r \in R :
        /\ req' = [req EXCEPT ![t] = r]
        /\ IF validation_error(r) # None
           THEN /\ resp' = [resp EXCEPT ![t] = json_error(validation_error(r), 400)]
                /\ pc' = [pc EXCEPT ![t] = "done"]
                /\ UNCHANGED filename
           ELSE /\ filename' = [filename EXCEPT ![t] = secure_filename(r.filename)]
                /\ pc' = [pc EXCEPT ![t] = "save"]
                /\ UNCHANGED resp
    /\ UNCHANGED <<uploads, call, ret>>

\* file.save(upload_path)
analyze_save(t) ==
    /\ pc[t] = "save"
    /\ uploads' = save(uploads, filename[t], content(t))
    /\ pc' = [pc EXCEPT ![t] = "dispatch"]
    /\ UNCHANGED <<req, filename, call, ret, resp>>

\* The extension is read and the branch taken: an exception that escapes, a
\* 400 reply, or a call of the detector on upload_path.
analyze_dispatch(t) ==
    /\ pc[t] = "dispatch"
    /\ LET d == dispatch(filename[t], req[t].analysis_type)
       IN  IF d.do = "invoke"
           THEN /\ call' = [call EXCEPT ![t] =
                       invoke(@, [op |-> d.what, path |-> UPLOAD_FOLDER \o filename[t],
                                  holds |-> uploads[filename[t]]])]
                /\ pc' = [pc EXCEPT ![t] = "engine"]
                /\ UNCHANGED resp
           ELSE /\ resp' = [resp EXCEPT ![t] =
                       IF d.do = "raise" THEN unhandled(d.what)
                       ELSE json_error(d.what, 400)]
                /\ pc' = [pc EXCEPT ![t] = "done"]
                /\ UNCHANGED call
    /\ UNCHANGED <<req, filename, uploads, ret>>

\* The detector returns or raises, and the handler answers.
analyze_respond(t, O) ==
    /\ pc[t] = "engine"
    /\ \E o \in O[call[t][Len(call[t])].op] :
        /\ ret' = [ret EXCEPT ![t] = o]
        /\ resp' = [resp EXCEPT ![t] =
                        response_to(call[t][Len(call[t])].op, o, filename[t])]
    /\ pc' = [pc EXCEPT ![t] = "done"]
    /\ UNCHANGED <<req, filename, uploads, call>>

Init == InitFor({1})

Validate == \E t \in Threads : analyze_validate(t, Requests)

Save == \E t \in Threads : analyze_save(t)

Dispatch == \E t \in Threads : analyze_dispatch(t)

Respond == \E t \in Threads : analyze_respond(t, Outcomes)

Next == Validate \/ Save \/ Dispatch \/ Respond

\* One request, any upload and any detector outcome.
Spec == Init /\ [][Next]_vars

ConcInit == InitFor(1..NumThreads)

ConcValidate == \E t \in Threads : analyze_validate(t, ConcRequests)

ConcRespond == \E t \in Threads : analyze_respond(t, ConcOutcomes)

ConcNext == ConcValidate \/ Save \/ Dispatch \/ ConcRespond

\* Requests served by concurrent threads (app.run serves each request in a
\* thread of its own).
ConcSpec == ConcInit /\ [][ConcNext]_vars

----------------------------------------------------------------------------
(* Properties *)

Done(t) == pc[t] = "done"

\* The operations thread t has called, in order.
OpsCalled(t) == [i \in DOMAIN call[t] |-> call[t][i].op]

Returned(t) == ret[t].raised = None

Raised(t) == ret[t].raised \in FailureKinds

\* The extension of an uploaded filename as the allow-list reads it: the
\* lower-cased text after the last dot, <<>> when there is no dot.
RawExtension(name) ==
    IF \E i \in DOMAIN name : name[i] = DOT
    THEN lower_seq(rsplit_dot(name)[2])
    ELSE <<>>

ListedExtensions == {<<"png">>, <<"jpg">>, <<"jpeg">>, <<"pdf">>}

ImageExtensions == {<<"png">>, <<"jpg">>, <<"jpeg">>}

\* The request of thread t has a file, a filename, an analysis type and a
\* listed extension.
Validated(t) ==
    /\ pc[t] # "waiting"
    /\ req[t].has_file
    /\ req[t].filename # <<>>
    /\ req[t].analysis_type \notin {None, ""}
    /\ RawExtension(req[t].filename) \in ListedExtensions

\* Thread t answered 400 with this message and called no detector operation.
Rejected(t, msg) ==
    /\ Done(t)
    /\ resp[t] = [kind |-> "json", status |-> 400, body |-> [error |-> msg]]
    /\ call[t] = <<>>

\* C1: an image analysis whose detector call returned probability p answers
\* 'DeepFake Detected' iff p > 0.5 (p = 0.5 gives 'Likely Authentic'), and
\* the explanation is the one of that verdict.
C1_VerdictIffAboveHalf ==
    \A t \in Threads :
        (Done(t) /\ OpsCalled(t) = <<PREDICT>> /\ Returned(t)) =>
            /\ resp[t].status = 200
            /\ resp[t].body.verdict \in {"DeepFake Detected", "Likely Authentic"}
            /\ resp[t].body.verdict = "DeepFake Detected"
                   <=> ret[t].probability > ProbHalf
            /\ ret[t].probability = ProbHalf
                   => resp[t].body.verdict = "Likely Authentic"
            /\ resp[t].body.explanation =
                   IF resp[t].body.verdict = "DeepFake Detected"
                   THEN EXPL_FAKE ELSE EXPL_AUTHENTIC

C1_Witness ==
    \E t \in Threads :
        /\ Done(t) /\ OpsCalled(t) = <<PREDICT>> /\ Returned(t)
        /\ ret[t].probability = ProbHalf
        /\ resp[t].body.verdict = "Likely Authentic"

\* C2: a request that fails a validation check (file part, filename, analysis
\* type, listed extension, in that order) is answered 400 with the message
\* of the first check it fails and no detector operation is called for it;
\* each of the four messages is given for its own check only.
C2_ValidationRejects ==
    \A t \in Threads :
        pc[t] # "waiting" =>
            LET r == req[t]
                first ==
                    IF ~r.has_file THEN MSG_NO_FILE_PART
                    ELSE IF r.filename = <<>> THEN MSG_NO_FILE_SELECTED
                    ELSE IF r.analysis_type \in {None, ""} THEN MSG_NO_ANALYSIS_TYPE
                    ELSE IF RawExtension(r.filename) \notin ListedExtensions
                    THEN MSG_INVALID_FILE_TYPE
                    ELSE None
            IN  /\ first # None => Rejected(t, first)
                /\ first = None =>
                       ~(/\ Done(t)
                         /\ resp[t].kind = "json"
                         /\ resp[t].status = 400
                         /\ resp[t].body.error \in
                                {MSG_NO_FILE_PART, MSG_NO_FILE_SELECTED,
                                 MSG_NO_ANALYSIS_TYPE, MSG_INVALID_FILE_TYPE})

C2_Witness ==
    \E t \in Threads :
        /\ req[t].has_file
        /\ req[t].filename = <<"a", DOT, "exe">>
        /\ req[t].analysis_type = "image"
        /\ Rejected(t, MSG_INVALID_FILE_TYPE)

\* C3: image analysis asked on a file whose extension is pdf is answered 400
\* and no detector operation is called.
C3_ImageOnPdfRejected ==
    \A t \in Threads :
        (/\ Done(t)
         /\ Validated(t)
         /\ RawExtension(req[t].filename) = <<"pdf">>
         /\ req[t].analysis_type = "image") =>
            /\ resp[t].kind = "json"
            /\ resp[t].status = 400
            /\ call[t] = <<>>

\* C4: whatever a detector operation raises, the response is status 500 with
\* the one fixed message and nothing else.
C4_FailuresCollapsed ==
    \A t \in Threads :
        (Done(t) /\ Raised(t)) =>
            resp[t] = [kind |-> "json", status |-> 500,
                       body |-> [error |-> MSG_INTERNAL]]

C4_Witness ==
    \E t \in Threads :
        /\ Done(t)
        /\ OpsCalled(t) = <<PDF>>
        /\ ret[t].raised = "IOError"
        /\ resp[t].status = 500

\* The operations a validated request is to reach, by (extension, type).
ExpectedOps(ext, atype) ==
    IF ext = <<"pdf">> /\ atype # "image" THEN <<PDF>>
    ELSE IF ext \in ImageExtensions /\ atype = "image" THEN <<PREDICT>>
    ELSE IF ext \in ImageExtensions /\ atype = "document" THEN <<DOCUMENT>>
    ELSE <<>>

\* C5: the operation called for a validated request is the one its
\* (extension, analysis type) selects; every other combination calls none
\* and is answered 400; analyze_pdf_forgery gets pdf files and only it does.
C5_DispatchByExtensionAndType ==
    \A t \in Threads :
        (Done(t) /\ Validated(t)) =>
            LET ext == RawExtension(req[t].filename)
                ops == ExpectedOps(ext, req[t].analysis_type)
            IN  /\ OpsCalled(t) = ops
                /\ ops = <<>> => resp[t].kind = "json" /\ resp[t].status = 400
                /\ \A i \in DOMAIN call[t] :
                       call[t][i].op = PDF
                           <=> RawExtension(call[t][i].path) = <<"pdf">>

NoRetry ==
    \A t \in Threads :
        /\ Len(call[t]) <= 1
        /\ (Done(t) /\ Raised(t)) => Len(call[t]) = 1 /\ resp[t].status = 500

AnsweredIsFinal ==
    \A t \in Threads :
        Done(t) => pc'[t] = pc[t] /\ call'[t] = call[t] /\ resp'[t] = resp[t]

OthersUntouched ==
    \A t \in Threads :
        pc'[t] # pc[t] =>
            \A u \in Threads \ {t} :
                /\ pc'[u] = pc[u]
                /\ req'[u] = req[u]
                /\ call'[u] = call[u]
                /\ ret'[u] = ret[u]
                /\ resp'[u] = resp[u]

\* C6: a request calls at most one detector operation, at most once; after a
\* failure it is answered with the error and calls nothing more; and a step
\* of one request changes neither the calls nor the response of another.
C6_NoRetryIndependent ==
    /\ []NoRetry
    /\ [][AnsweredIsFinal /\ OthersUntouched]_vars

C6_Witness ==
    \E t, u \in Threads :
        /\ t # u
        /\ Done(t) /\ Raised(t) /\ Len(call[t]) = 1
        /\ Done(u) /\ Returned(u) /\ resp[u].status = 200

UrlKeyIffPath(entry, page, urlkey, pathkey) ==
    urlkey \in DOMAIN entry
        <=> (pathkey \in DOMAIN page /\ page[pathkey] \notin {<<None>>, <<>>})

\* C7: for a PDF analysis that returned, 'results' has the length and order
\* of the detector's pages, every field the detector returned is unchanged,
\* and the only keys added are 'original_image_url' (iff the entry has a
\* non-empty 'original_page_image_path') and 'analyzed_image_url' (iff it
\* has a non-empty 'analyzed_image_path'); the status is 200, also for no
\* pages.
C7_PdfResultsPreserved ==
    \A t \in Threads :
        (Done(t) /\ OpsCalled(t) = <<PDF>> /\ Returned(t)) =>
            LET pages == ret[t].pages
                results == resp[t].body.results
            IN  /\ resp[t].status = 200
                /\ Len(results) = Len(pages)
                /\ \A i \in DOMAIN pages :
                    /\ DOMAIN pages[i] \subseteq DOMAIN results[i]
                    /\ \A k \in DOMAIN pages[i] : results[i][k] = pages[i][k]
                    /\ DOMAIN results[i] \ DOMAIN pages[i]
                           \subseteq {"original_image_url", "analyzed_image_url"}
                    /\ UrlKeyIffPath(results[i], pages[i], "original_image_url",
                                     "original_page_image_path")
                    /\ UrlKeyIffPath(results[i], pages[i], "analyzed_image_url",
                                     "analyzed_image_path")

C7_Witness ==
    \E t \in Threads :
        /\ Done(t) /\ OpsCalled(t) = <<PDF>> /\ Returned(t)
        /\ Len(ret[t].pages) >= 2
        /\ resp[t].body.results[1].page_number = 1
        /\ "original_image_url" \in DOMAIN resp[t].body.results[1]
        /\ "analyzed_image_url" \notin DOMAIN resp[t].body.results[2]

\* C8: when a thread calls the detector, the file at the path it passes
\* holds the upload of that thread's own request.
C8_EngineSeesOwnUpload ==
    \A t \in Threads :
        \A i \in DOMAIN call[t] : call[t][i].holds = content(t)

\* C9: for a filename the allow-list accepts, the sanitised filename has an
\* extension and it is the one that was accepted, and the request ends in
\* one of the handler's own JSON responses.
C9_NoEscapingException ==
    \A t \in Threads :
        /\ (Done(t) /\ Validated(t)) =>
               /\ Len(rsplit_dot(filename[t])) = 2
               /\ lower_seq(rsplit_dot(filename[t])[2])
                      = RawExtension(req[t].filename)
        /\ Done(t) => resp[t].kind = "json" /\ resp[t].status \in {200, 400, 500}

\* C10: a request answered 400 has written nothing to the upload folder
\* (which starts empty) and has called no detector operation.
C10_RejectedLeavesNoUpload ==
    \A t \in Threads :
        /\ (Done(t) /\ resp[t].status = 400) => DOMAIN uploads = {}
        /\ (Done(t) /\ resp[t].status = 400) => call[t] = <<>>

=============================================================================
